---------------------------- MODULE Spec2Model ----------------------------
(***************************************************************************)
(* Model of the omnichannel chat widget's conversation lifecycle guard,    *)
(* its end-chat confirmation pane, its CSAT scoring pipeline and the       *)
(* attachments of its send box.                                            *)
(*                                                                         *)
(* JavaScript values are modelled as strings: the enum members by their    *)
(* names, a boolean field by "true" / "false", an absent field (what       *)
(* optional chaining yields) by "undefined", and an enum value the code    *)
(* does not know by "Unknown".                                             *)
(***************************************************************************)
EXTENDS Integers, Sequences, FiniteSets, TLC

VARIABLES
    \* ---- guard evaluation on an arbitrary state record (SpecGuard)
    inMemState,          \* the appStates record a guard expression reads
    isPersistentArg,     \* the isPersistent flag of the start-chat guard
    guardOut,            \* what the last guard evaluation returned
    \* ---- the widget store and the confirmation pane (Spec)
    appStates,           \* state.appStates
    confirmationState,   \* state.domainStates.confirmationState
    showConfirmationPane,\* state.uiStates.showConfirmationPane
    isPersistent,        \* whether the chat session is persistent
    rendered,            \* the state captured by the pane's last render
    sdkCalls,            \* SDK calls in flight: startChat / endChat
    lastOp,              \* the last handler that ran and what it dispatched
    \* ---- the CSAT scoring pipeline (SpecText, SpecPipeline)
    chatTranscript,      \* the filtered ChatMessage list
    conversationText,    \* the text assembled for the provider
    textBy,              \* which service assembled it: "SDK", "REST" or "none"
    svc,                 \* "SDK": SentimentAnalysisService, "REST": SentimentAnalyticsService
    entry,               \* "analyzeSentiments" or "analyzeSentimentWithSurvey"
    config,              \* the caller's config argument
    survey,              \* the copilotSurveyResponse argument
    pc,                  \* where the run is: idle, fetching, calling, done
    fetched,             \* how getLiveChatTranscript settled
    response,            \* how the provider call settled
    fetchCalls,          \* invocations of getLiveChatTranscript
    providerCalls,       \* calls of the sentiment provider
    aiResult,            \* what analyzeSentiments returned
    result,              \* what the entry point returned
    raised,              \* whether the entry point's promise rejected
    \* ---- survey detection on an inbound activity (SpecSurvey)
    activity,            \* the DirectLine activity
    detected,            \* what isCopilotSurveyResponse returned, "none" before
    extracted,           \* what extractSurveyResponse returned
    \* ---- the attachments of the send box (SpecSendBox)
    wcAttachments,       \* Web Chat's send box attachments
    renderedAttachments, \* wcAttachments as the last render captured it
    accept,              \* props.accept
    sendBoxOp            \* the last handler of the send box that ran

guardVars  == <<inMemState, isPersistentArg, guardOut>>
widgetVars == <<appStates, confirmationState, showConfirmationPane,
                isPersistent, rendered, sdkCalls, lastOp>>
textVars   == <<chatTranscript, conversationText, textBy>>
pipeVars   == <<svc, entry, config, survey, pc, fetched, response,
                fetchCalls, providerCalls, aiResult, result, raised>>
surveyVars == <<activity, detected, extracted>>
sendBoxVars == <<wcAttachments, renderedAttachments, accept, sendBoxOp>>
vars == <<guardVars, widgetVars, textVars, pipeVars, surveyVars, sendBoxVars>>

\* What the actions of one part of the model leave alone.
nonGuardVars  == <<widgetVars, textVars, pipeVars, surveyVars, sendBoxVars>>
nonWidgetVars == <<guardVars, textVars, pipeVars, surveyVars, sendBoxVars>>
nonTextVars   == <<guardVars, widgetVars, pipeVars, surveyVars, sendBoxVars>>
nonPipeVars   == <<guardVars, widgetVars, surveyVars, sendBoxVars>>
nonSurveyVars == <<guardVars, widgetVars, textVars, pipeVars, sendBoxVars>>
nonSendBoxVars == <<guardVars, widgetVars, textVars, pipeVars, surveyVars>>

----------------------------------------------------------------------------
(* Enumerations *)

ConversationStates ==
    {"Closed", "Prechat", "Loading", "Active", "InActive",
     "Postchat", "PostchatLoading", "Error"}

ConversationEndEntities == {"NotSet", "Customer", "Agent"}

ConfirmationStates == {"NotSet", "Ok", "Cancel"}

\* JavaScript truthiness of a boolean field that may be absent.
Truthy(v) == v = "true"

----------------------------------------------------------------------------
(* The guards: inline boolean expressions over inMemState.appStates *)

shouldPreventStartChatNoInActive(s, persistent) ==
    \/ s.conversationEndedBy # "NotSet"
    \/ s.conversationState = "PostchatLoading"
    \/ s.conversationState = "Postchat"

shouldPreventStartChat(s, persistent) ==
    \/ s.conversationEndedBy # "NotSet"
    \/ s.conversationState = "PostchatLoading"
    \/ s.conversationState = "Postchat"
    \/ (~persistent /\ s.conversationState = "InActive")

shouldPreventEndChatIgnoringFailure(s) ==
    s.conversationState = "Loading"

shouldPreventEndChat(s) ==
    s.conversationState = "Loading" /\ ~Truthy(s.startChatFailed)

shouldPreventCrossTabEndChat(s) ==
    s.conversationState = "Loading" /\ ~Truthy(s.startChatFailed)

----------------------------------------------------------------------------
(* SpecGuard: each guard applied to every state record, well typed or not *)

GuardInputStates ==
    [conversationState   : ConversationStates \cup {"Unknown", "undefined"},
     conversationEndedBy : ConversationEndEntities \cup {"Unknown", "undefined"},
     startChatFailed     : {"true", "false", "undefined"}]

NoGuardOut == [guard |-> "none", prevented |-> FALSE]

InitialAppStates ==
    [conversationState |-> "Closed",
     conversationEndedBy |-> "NotSet",
     startChatFailed |-> "false",
     previousElementIdOnFocusBeforeModalOpen |-> "null"]

\* What a handler closes over: the store as of the render that created it.
NoSnapshot ==
    [appStates |-> InitialAppStates,
     confirmationState |-> "NotSet",
     showConfirmationPane |-> FALSE]

NotRendered == [mounted |-> FALSE, state |-> NoSnapshot]

\* The conversation fields of an appStates record.
Conversation(a) ==
    [conversationState |-> a.conversationState,
     conversationEndedBy |-> a.conversationEndedBy,
     startChatFailed |-> a.startChatFailed]

NoOp == [name |-> "none", read |-> NoSnapshot,
         before |-> Conversation(InitialAppStates),
         dispatched |-> <<>>, prevented |-> FALSE]

\* A value that is not there: undefined, or a field that is absent.
Undefined == [t |-> "undefined"]

\* null, as a CSATResult | null
Null == [t |-> "null"]

\* The scoring pipeline before a run.
PipeIdle ==
    /\ svc = "SDK"
    /\ entry = "analyzeSentiments"
    /\ config = [enabled |-> "absent", endpoint |-> "absent", apiKey |-> "absent"]
    /\ survey = Undefined
    /\ pc = "idle"
    /\ fetched = [t |-> "none", value |-> Undefined]
    /\ response = [kind |-> "none", document |-> Undefined]
    /\ fetchCalls = 0
    /\ providerCalls = 0
    /\ aiResult = Undefined
    /\ result = Undefined
    /\ raised = FALSE

\* No activity has been looked at.
SurveyIdle ==
    /\ activity = Undefined
    /\ detected = "none"
    /\ extracted = Undefined

NoSendBoxOp ==
    [name |-> "none", before |-> <<>>, current |-> <<>>, files |-> <<>>,
     sent |-> FALSE]

SendBoxIdle ==
    /\ wcAttachments = <<>>
    /\ renderedAttachments = <<>>
    /\ accept = Undefined
    /\ sendBoxOp = NoSendBoxOp

TextIdle ==
    /\ chatTranscript = <<>>
    /\ conversationText = <<>>
    /\ textBy = "none"

WidgetIdle ==
    /\ appStates = InitialAppStates
    /\ confirmationState = "NotSet"
    /\ showConfirmationPane = FALSE
    /\ isPersistent = FALSE
    /\ rendered = NotRendered
    /\ sdkCalls = [startChat |-> 0, endChat |-> 0]
    /\ lastOp = NoOp

GuardInit ==
    /\ inMemState \in GuardInputStates
    /\ isPersistentArg \in BOOLEAN
    /\ guardOut = NoGuardOut
    /\ WidgetIdle
    /\ TextIdle
    /\ PipeIdle
    /\ SurveyIdle
    /\ SendBoxIdle

EvalShouldPreventStartChat ==
    /\ guardOut' = [guard |-> "startChat",
                    prevented |-> shouldPreventStartChat(inMemState, isPersistentArg)]
    /\ UNCHANGED <<inMemState, isPersistentArg, nonGuardVars>>

EvalShouldPreventEndChat ==
    /\ guardOut' = [guard |-> "endChat",
                    prevented |-> shouldPreventEndChat(inMemState)]
    /\ UNCHANGED <<inMemState, isPersistentArg, nonGuardVars>>

EvalShouldPreventCrossTabEndChat ==
    /\ guardOut' = [guard |-> "crossTabEndChat",
                    prevented |-> shouldPreventCrossTabEndChat(inMemState)]
    /\ UNCHANGED <<inMemState, isPersistentArg, nonGuardVars>>

GuardNext ==
    \/ EvalShouldPreventStartChat
    \/ EvalShouldPreventEndChat
    \/ EvalShouldPreventCrossTabEndChat

SpecGuard == GuardInit /\ [][GuardNext]_vars

----------------------------------------------------------------------------
\* C1: the start-chat guard prevents exactly when conversationEndedBy is not
\* NotSet, or the conversation is in PostchatLoading or Postchat, or the
\* session is not persistent and the conversation is InActive.
C1_StartGuardTable ==
    guardOut.guard = "startChat" =>
        /\ guardOut.prevented <=>
              \/ inMemState.conversationEndedBy # "NotSet"
              \/ inMemState.conversationState \in {"PostchatLoading", "Postchat"}
              \/ (~isPersistentArg /\ inMemState.conversationState = "InActive")
        /\ (inMemState.conversationEndedBy # "NotSet" => guardOut.prevented)
        /\ (inMemState.conversationEndedBy = "NotSet"
              /\ inMemState.conversationState = "InActive"
                => (guardOut.prevented <=> ~isPersistentArg))

C1_Witness ==
    /\ guardOut.guard = "startChat"
    /\ inMemState.conversationEndedBy = "NotSet"
    /\ inMemState.conversationState = "InActive"
    /\ isPersistentArg
    /\ ~guardOut.prevented

\* C2: the end-chat guard prevents exactly when the conversation is Loading
\* and startChatFailed is false, and the cross-tab end-chat guard returns the
\* same as the local one on every state.
C2_EndGuardTable ==
    /\ guardOut.guard \in {"endChat", "crossTabEndChat"} =>
          (guardOut.prevented <=>
              /\ inMemState.conversationState = "Loading"
              /\ inMemState.startChatFailed # "true")
    /\ guardOut.guard = "crossTabEndChat" =>
          guardOut.prevented = shouldPreventEndChat(inMemState)
    /\ guardOut.guard = "endChat" =>
          guardOut.prevented = shouldPreventCrossTabEndChat(inMemState)

C2_Witness ==
    /\ guardOut.guard = "crossTabEndChat"
    /\ inMemState.conversationState = "Loading"
    /\ inMemState.startChatFailed = "true"
    /\ ~guardOut.prevented

\* C5: the guards fail open on a missing field: the start-chat guard on a
\* state without conversationEndedBy whose conversationState is Closed
\* allows the start, for both values of isPersistent.
C5_FailOpenOnMissingEndedBy ==
    /\ guardOut.guard = "startChat"
    /\ inMemState.conversationEndedBy = "undefined"
    /\ inMemState.conversationState = "Closed"
    => ~guardOut.prevented

----------------------------------------------------------------------------
(* Strings.  A string is a sequence of runs [c, n]: the character c        *)
(* repeated n >= 1 times, adjacent runs holding different characters, so   *)
(* that equal strings are equal sequences.  "\n" is the line feed.         *)

Run(c, n) == IF n <= 0 THEN <<>> ELSE << [c |-> c, n |-> n] >>

Concat(a, b) ==
    IF a = <<>> THEN b
    ELSE IF b = <<>> THEN a
    ELSE IF a[Len(a)].c = b[1].c
    THEN SubSeq(a, 1, Len(a) - 1)
            \o << [c |-> b[1].c, n |-> a[Len(a)].n + b[1].n] >>
            \o Tail(b)
    ELSE a \o b

\* A literal, given character by character.
RECURSIVE Lit(_)
Lit(chars) ==
    IF chars = <<>> THEN <<>>
    ELSE Concat(Run(Head(chars), 1), Lit(Tail(chars)))

\* String.prototype.length
RECURSIVE StrLen(_)
StrLen(str) == IF str = <<>> THEN 0 ELSE str[1].n + StrLen(Tail(str))

\* String.prototype.substring(start)
RECURSIVE Substring(_, _)
Substring(str, start) ==
    IF start <= 0 \/ str = <<>> THEN str
    ELSE IF str[1].n <= start THEN Substring(Tail(str), start - str[1].n)
    ELSE << [c |-> str[1].c, n |-> str[1].n - start] >> \o Tail(str)

\* String.prototype.indexOf(ch), counted from position `from`
RECURSIVE IndexOfFrom(_, _, _)
IndexOfFrom(str, ch, from) ==
    IF str = <<>> THEN -1
    ELSE IF str[1].c = ch THEN from
    ELSE IndexOfFrom(Tail(str), ch, from + str[1].n)

IndexOf(str, ch) == IndexOfFrom(str, ch, 0)

\* String.prototype.endsWith(suffix)
EndsWith(str, suffix) ==
    /\ StrLen(suffix) <= StrLen(str)
    /\ Substring(str, StrLen(str) - StrLen(suffix)) = suffix

SenderName(sender) ==
    CASE sender = "customer" -> Lit(<<"c", "u", "s", "t", "o", "m", "e", "r">>)
      [] sender = "agent"    -> Lit(<<"a", "g", "e", "n", "t">>)
      [] sender = "bot"      -> Lit(<<"b", "o", "t">>)

----------------------------------------------------------------------------
(* Text assembly: the conversation text each service submits              *)

MAX_TEXT_LENGTH == 5000

\* SentimentAnalysisService: `[${message.sender}]: ${message.content}\n`
messageText(message) ==
    Concat(Concat(Concat(Lit(<<"[">>), SenderName(message.sender)),
                  Concat(Lit(<<"]", ":", " ">>), message.content)),
           Lit(<<"\n">>))

\* The loop of callSentimentAnalysis, from message i down to the oldest.
RECURSIVE BuildFromLatest(_, _, _)
BuildFromLatest(transcript, i, text) ==
    IF i < 1 THEN text
    ELSE IF i = Len(transcript)
            \/ StrLen(text) + StrLen(messageText(transcript[i])) <= MAX_TEXT_LENGTH
    THEN BuildFromLatest(transcript, i - 1,
                         Concat(messageText(transcript[i]), text))
    ELSE text

SdkConversationText(transcript) ==
    BuildFromLatest(transcript, Len(transcript), <<>>)

AZURE_MAX_TEXT_LENGTH == 5000

\* SentimentAnalyticsService: `${msg.sender}: ${msg.content}`
messageLine(msg) ==
    Concat(Concat(SenderName(msg.sender), Lit(<<":", " ">>)), msg.content)

\* chatTranscript.map(...).join("\n")
RECURSIVE JoinLines(_)
JoinLines(transcript) ==
    IF transcript = <<>> THEN <<>>
    ELSE IF Len(transcript) = 1 THEN messageLine(transcript[1])
    ELSE Concat(Concat(messageLine(transcript[1]), Lit(<<"\n">>)),
                JoinLines(Tail(transcript)))

\* The truncation of callAzureTextAnalytics.
TruncateFromStart(joined) ==
    IF StrLen(joined) > AZURE_MAX_TEXT_LENGTH
    THEN LET cut == Concat(Lit(<<".", ".", ".">>),
                           Substring(joined,
                                     StrLen(joined) - AZURE_MAX_TEXT_LENGTH + 3))
             firstNewlineIndex == IndexOf(cut, "\n")
         IN IF firstNewlineIndex > 0 /\ firstNewlineIndex < 100
            THEN Substring(cut, firstNewlineIndex + 1)
            ELSE cut
    ELSE joined

RestConversationText(transcript) == TruncateFromStart(JoinLines(transcript))

----------------------------------------------------------------------------
(* SpecText: both assemblies applied to bounded transcripts               *)

MaxMessages == 3

\* Message contents: short ones, ones that fill the budget together or
\* alone, one longer than the budget, and one holding a line feed.
Contents ==
    { Run("x", 2), Run("x", 80), Run("x", 2400), Run("x", 4980),
      Run("x", 5001),
      Concat(Concat(Run("x", 40), Lit(<<"\n">>)), Run("y", 4990)) }

ChatMessages == [sender : {"customer", "bot"}, content : Contents]

Transcripts == UNION { [1..n -> ChatMessages] : n \in 1..MaxMessages }

TextInit ==
    /\ chatTranscript \in Transcripts
    /\ conversationText = <<>>
    /\ textBy = "none"
    /\ inMemState = [conversationState |-> "Closed",
                     conversationEndedBy |-> "NotSet",
                     startChatFailed |-> "false"]
    /\ isPersistentArg = FALSE
    /\ guardOut = NoGuardOut
    /\ WidgetIdle
    /\ PipeIdle
    /\ SurveyIdle
    /\ SendBoxIdle

\* SentimentAnalysisService.callSentimentAnalysis builds its document.
AssembleSdkText ==
    /\ textBy = "none"
    /\ conversationText' = SdkConversationText(chatTranscript)
    /\ textBy' = "SDK"
    /\ UNCHANGED <<chatTranscript, nonTextVars>>

\* SentimentAnalyticsService.callAzureTextAnalytics builds its document.
AssembleRestText ==
    /\ textBy = "none"
    /\ conversationText' = RestConversationText(chatTranscript)
    /\ textBy' = "REST"
    /\ UNCHANGED <<chatTranscript, nonTextVars>>

TextNext == AssembleSdkText \/ AssembleRestText

SpecText == TextInit /\ [][TextNext]_vars

Newest == chatTranscript[Len(chatTranscript)]

\* C9: the text submitted to the provider contains the complete line of the
\* newest message, sender prefix and whole content, in both assemblies, also
\* when the transcript or that line alone exceeds the 5000-character budget.
C9_NewestLineIntact ==
    /\ textBy = "SDK" => EndsWith(conversationText, messageText(Newest))
    /\ textBy = "REST" => EndsWith(conversationText, messageLine(Newest))

\* C10: the text submitted to the provider is at most 5000 characters long,
\* prefixes and separators counted, unless the newest message's line alone
\* is longer, and then the text is exactly that line.
C10_WithinBudgetOrNewestLineOnly ==
    /\ textBy = "SDK" =>
          IF StrLen(messageText(Newest)) > 5000
          THEN conversationText = messageText(Newest)
          ELSE StrLen(conversationText) <= 5000
    /\ textBy = "REST" =>
          IF StrLen(messageLine(Newest)) > 5000
          THEN conversationText = messageLine(Newest)
          ELSE StrLen(conversationText) <= 5000

----------------------------------------------------------------------------
(* The CSAT scoring pipeline: values                                       *)
(*                                                                         *)
(* A JavaScript value is a record tagged by t: "undefined"; "string", the  *)
(* JSON text of the value json (or of nothing, json.t = "invalid");        *)
(* "object", with its chatMessagesJson and messages fields; "array", with  *)
(* its items.  A function that may throw returns [threw, value].           *)

JsonText(v) == [t |-> "string", json |-> v]
NotJson == [t |-> "invalid"]
Obj(cmj, msgs) == [t |-> "object", chatMessagesJson |-> cmj, messages |-> msgs]
Arr(items) == [t |-> "array", items |-> items]

Thrown == [threw |-> TRUE, value |-> Undefined]
Returned(v) == [threw |-> FALSE, value |-> v]

\* JavaScript truthiness of a value.
IsTruthy(v) == v.t \in {"string", "object", "array"}

\* JSON.parse
JSONparse(str) == IF str.json.t = "invalid" THEN Thrown ELSE Returned(str.json)

\* Falsiness of a config field: absent after the merge, "", false.
Falsy(v) == v \in {"undefined", "", "false"}

DEFAULT_CONFIG ==
    [endpoint |-> "https://chat-sentiment-analytics.cognitiveservices.azure.com",
     apiKey   |-> "<API_KEY>",
     enabled  |-> "true"]

\* { ...this.DEFAULT_CONFIG, ...config }: a key the caller's config holds
\* overrides the default, also when its value is undefined.
effectiveConfig(cfg) ==
    [f \in DOMAIN DEFAULT_CONFIG |->
        IF cfg[f] = "absent" THEN DEFAULT_CONFIG[f] ELSE cfg[f]]

configRejectedIgnoringApiKey(eff) ==
    Falsy(eff.enabled) \/ Falsy(eff.endpoint)

\* !effectiveConfig.enabled || !effectiveConfig.endpoint || !effectiveConfig.apiKey
configRejected(eff) ==
    Falsy(eff.enabled) \/ Falsy(eff.endpoint) \/ Falsy(eff.apiKey)

----------------------------------------------------------------------------
(* Transcript retrieval, filtering and sender classification               *)

HasTag(message, tag) ==
    message.tags.t = "string" /\ tag \in message.tags.tokens

\* Which of the words the code looks for a display name contains, lower-cased.
NameIncludes(name, word) ==
    name.t = "string" /\ word \in name.words

\* message.content.trim().length === 0
IsBlank(str) == \A i \in DOMAIN str : str[i].c \in {" ", "\n", "\t"}

\* SentimentAnalysisService.determineSender
determineSenderSdk(message) ==
    IF HasTag(message, "FromCustomer")
          \/ (message.applicationDisplayName.t = "string"
                /\ message.applicationDisplayName.is = "Customer")
    THEN "customer"
    ELSE IF HasTag(message, "public") THEN "agent"
    ELSE "bot"

\* SentimentAnalyticsService.determineSender
determineSenderRest(message) ==
    IF HasTag(message, "FromCustomer") \/ HasTag(message, "ChannelId-lcw")
    THEN "customer"
    ELSE IF message.applicationDisplayName.t = "string"
              /\ message.applicationDisplayName.is = "Customer"
    THEN "customer"
    ELSE IF message.userDisplayName.t = "string"
              /\ (NameIncludes(message.userDisplayName, "bot")
                    \/ NameIncludes(message.userDisplayName, "virtual"))
    THEN "bot"
    ELSE IF message.userDisplayName.t = "string"
              /\ (NameIncludes(message.userDisplayName, "agent")
                    \/ message.userDisplayName.is = "__agent__")
    THEN "agent"
    ELSE IF message.messageType = "customer" \/ message.sender = "customer"
    THEN "customer"
    ELSE IF message.messageType = "agent" \/ message.sender = "agent"
    THEN "agent"
    ELSE "bot"

determineSender(service, message) ==
    IF service = "SDK" THEN determineSenderSdk(message)
    ELSE determineSenderRest(message)

\* The predicate of messages.filter(...)
keepMessage(service, message) ==
    /\ ~message.isControlMessage
    /\ message.content.t = "string"
    /\ message.content.s # <<>>
    /\ ~IsBlank(message.content.s)
    /\ service = "REST" =>
          ~(HasTag(message, "system") \/ HasTag(message, "agentassignmentready"))

RECURSIVE filterAndMap(_, _)
filterAndMap(service, items) ==
    IF items = <<>> THEN <<>>
    ELSE IF keepMessage(service, Head(items))
    THEN << [sender |-> determineSender(service, Head(items)),
             content |-> Head(items).content.s] >>
            \o filterAndMap(service, Tail(items))
    ELSE filterAndMap(service, Tail(items))

firstMessagesPreferringMessages(resp) ==
    IF resp.t = "object" /\ IsTruthy(resp.messages)
    THEN resp.messages
    ELSE IF resp.t = "object" /\ IsTruthy(resp.chatMessagesJson)
    THEN resp.chatMessagesJson
    ELSE Arr(<<>>)

\* The first reading of the messages:
\* transcriptResponse?.chatMessagesJson || transcriptResponse?.messages || []
firstMessages(resp) ==
    IF resp.t = "object" /\ IsTruthy(resp.chatMessagesJson)
    THEN resp.chatMessagesJson
    ELSE IF resp.t = "object" /\ IsTruthy(resp.messages)
    THEN resp.messages
    ELSE Arr(<<>>)

\* typeof messages === "string": parse it, [] when that throws
parsedOrEmpty(messages) ==
    IF messages.t = "string"
    THEN IF JSONparse(messages).threw THEN Arr(<<>>) ELSE JSONparse(messages).value
    ELSE messages

\* The second look at transcriptResponse.chatMessagesJson, when the first
\* reading yielded no array.
secondMessages(resp, messages) ==
    IF messages.t # "array" /\ resp.t = "object" /\ IsTruthy(resp.chatMessagesJson)
    THEN IF resp.chatMessagesJson.t = "string"
         THEN parsedOrEmpty(resp.chatMessagesJson)
         ELSE IF resp.chatMessagesJson.t = "array" THEN resp.chatMessagesJson
         ELSE messages
    ELSE messages

\* An item the filter callback throws on: null (no property can be read),
\* or a message that is no control message and whose content is truthy but
\* no string (content.trim is not a function).
HasUnreadableItem(items) ==
    \E i \in DOMAIN items :
        \/ items[i].t = "null"
        \/ /\ items[i].t = "message"
           /\ ~items[i].isControlMessage
           /\ items[i].content.t = "number"

\* The try block of getChatTranscript, given how the fetch settled.
getChatTranscriptBody(service, settled) ==
    IF settled.t = "rejects" THEN Thrown
    ELSE LET first == IF settled.value.t = "string"
                      THEN JSONparse(settled.value)
                      ELSE Returned(settled.value)
         IN IF first.threw THEN Thrown
            ELSE LET resp == first.value
                     messages == secondMessages(resp, parsedOrEmpty(firstMessages(resp)))
                 IN IF messages.t # "array" THEN Returned(<<>>)
                    ELSE IF HasUnreadableItem(messages.items) THEN Thrown
                    ELSE Returned(filterAndMap(service, messages.items))

\* getChatTranscript: catch (error) { return []; }
getChatTranscript(service, settled) ==
    IF getChatTranscriptBody(service, settled).threw THEN <<>>
    ELSE getChatTranscriptBody(service, settled).value

----------------------------------------------------------------------------
(* Scoring: provider response to CSATResult, survey blending               *)
(*                                                                         *)
(* Confidences are in thousandths.  A number that may be NaN is a record.  *)

Num(v) == [nan |-> FALSE, value |-> v]
NaN == [nan |-> TRUE, value |-> 0]

Max3(a, b, c) ==
    IF a >= b /\ a >= c THEN a ELSE IF b >= c THEN b ELSE c

\* Math.max(scores.positive, scores.negative, scores.neutral); NaN when a
\* score is undefined.
maxConfidence(scores) ==
    IF scores.t = "numbers"
    THEN Num(Max3(scores.positive, scores.negative, scores.neutral))
    ELSE NaN

\* scores[field] > 0.8, false when the score is undefined
Above(scores, field, thousandths) ==
    scores.t = "numbers" /\ scores[field] > thousandths

mapSentimentToSatisfactionBySentiment(sentiment, csatScore) ==
    IF sentiment = "positive" THEN "Satisfied"
    ELSE IF sentiment = "negative" THEN "Dissatisfied"
    ELSE "Neutral"

mapSentimentToSatisfaction(sentiment, csatScore) ==
    CASE csatScore = 5 -> "Very Satisfied"
      [] csatScore = 4 -> "Satisfied"
      [] csatScore = 3 -> "Neutral"
      [] csatScore = 2 -> "Dissatisfied"
      [] csatScore = 1 -> "Very Dissatisfied"
      [] OTHER -> IF sentiment = "positive" THEN "Satisfied"
                  ELSE IF sentiment = "negative" THEN "Dissatisfied"
                  ELSE "Neutral"

CSATResult(score, confidence, sentiment, level, surveyIncluded) ==
    [t |-> "result", csatScore |-> score, confidence |-> confidence,
     sentiment |-> sentiment, satisfactionLevel |-> level,
     surveyResponseIncluded |-> surveyIncluded]

scoreDocumentDippingAtMidConfidence(document) ==
    LET sentiment == IF document.sentiment = "mixed" THEN "neutral"
                     ELSE document.sentiment
        csatScore ==
            IF sentiment = "positive"
            THEN IF Above(document.confidenceScores, "positive", 800) THEN 5
                 ELSE IF Above(document.confidenceScores, "positive", 600) THEN 3
                 ELSE 4
            ELSE IF sentiment = "negative"
            THEN IF Above(document.confidenceScores, "negative", 800) THEN 1
                 ELSE IF Above(document.confidenceScores, "negative", 600) THEN 3
                 ELSE 2
            ELSE 3
    IN CSATResult(csatScore, maxConfidence(document.confidenceScores), sentiment,
                  mapSentimentToSatisfaction(sentiment, csatScore), "undefined")

\* The scoring both parsers share, for a document that has a sentiment and
\* a confidenceScores object.
scoreDocument(document) ==
    LET sentiment == IF document.sentiment = "mixed" THEN "neutral"
                     ELSE document.sentiment
        csatScore ==
            IF sentiment = "positive"
            THEN IF Above(document.confidenceScores, "positive", 800) THEN 5
                 ELSE IF Above(document.confidenceScores, "positive", 600) THEN 4
                 ELSE 4
            ELSE IF sentiment = "negative"
            THEN IF Above(document.confidenceScores, "negative", 800) THEN 1
                 ELSE IF Above(document.confidenceScores, "negative", 600) THEN 2
                 ELSE 2
            ELSE 3
    IN CSATResult(csatScore, maxConfidence(document.confidenceScores), sentiment,
                  mapSentimentToSatisfaction(sentiment, csatScore), "undefined")

\* The try block of parseAzureSDKResponse.
parseAzureSDKResponseBody(document) ==
    IF document.sentiment = "undefined" THEN Returned(Null)
    ELSE IF document.confidenceScores.t = "undefined" THEN Thrown
    ELSE Returned(scoreDocument(document))

\* parseAzureSDKResponse: catch (error) { return null; }
parseAzureSDKResponse(document) ==
    IF parseAzureSDKResponseBody(document).threw THEN Null
    ELSE parseAzureSDKResponseBody(document).value

\* The try block of callSentimentAnalysis from the point where
\* client.analyze settles.
callSentimentAnalysisBody(settled) ==
    CASE settled.kind = "rejects"     -> Thrown
      [] settled.kind = "nullPayload" -> Thrown
      [] settled.kind = "noResults"   -> Returned(Null)
      [] settled.kind \in {"errorEntry", "errorEntryMalformed"} -> Returned(Null)
      [] settled.kind = "document"    -> Returned(parseAzureSDKResponse(settled.document))

\* callSentimentAnalysis: catch (error) { return null; }
callSentimentAnalysis(settled) ==
    IF callSentimentAnalysisBody(settled).threw THEN Returned(Null)
    ELSE callSentimentAnalysisBody(settled)

\* parseAzureTextAnalyticsResponse has no handler of its own.
parseAzureTextAnalyticsResponse(settled) ==
    CASE settled.kind = "nullPayload"         -> Thrown
      [] settled.kind = "noResults"           -> Returned(Null)
      [] settled.kind = "errorEntry"          -> Returned(Null)
      [] settled.kind = "errorEntryMalformed" -> Thrown
      [] settled.kind = "document" ->
            IF settled.document.sentiment = "undefined" THEN Returned(Null)
            ELSE IF settled.document.confidenceScores.t = "undefined" THEN Thrown
            ELSE Returned(scoreDocument(settled.document))

\* callAzureTextAnalytics from the point where fetch settles; it has no
\* handler of its own either.
callAzureTextAnalytics(settled) ==
    CASE settled.kind = "rejects"          -> Thrown
      [] settled.kind = "notOk"            -> Returned(Null)
      [] settled.kind = "notOkTextRejects" -> Thrown
      [] settled.kind = "jsonRejects"      -> Thrown
      [] OTHER -> parseAzureTextAnalyticsResponse(settled)

callProvider(service, settled) ==
    IF service = "SDK" THEN callSentimentAnalysis(settled)
    ELSE callAzureTextAnalytics(settled)

\* parseInt on a string given as its characters (decimal only).
IsDigit(ch) == ch \in {"0", "1", "2", "3", "4", "5", "6", "7", "8", "9"}

DigitValue(ch) ==
    CASE ch = "0" -> 0 [] ch = "1" -> 1 [] ch = "2" -> 2 [] ch = "3" -> 3
      [] ch = "4" -> 4 [] ch = "5" -> 5 [] ch = "6" -> 6 [] ch = "7" -> 7
      [] ch = "8" -> 8 [] ch = "9" -> 9

RECURSIVE TrimStart(_)
TrimStart(chars) ==
    IF chars # <<>> /\ Head(chars) \in {" ", "\n", "\t"}
    THEN TrimStart(Tail(chars))
    ELSE chars

RECURSIVE LeadingDigits(_)
LeadingDigits(chars) ==
    IF chars # <<>> /\ IsDigit(Head(chars))
    THEN <<Head(chars)>> \o LeadingDigits(Tail(chars))
    ELSE <<>>

RECURSIVE DecimalValue(_, _)
DecimalValue(digits, acc) ==
    IF digits = <<>> THEN acc
    ELSE DecimalValue(Tail(digits), 10 * acc + DigitValue(Head(digits)))

parseInt(chars) ==
    LET trimmed == TrimStart(chars)
        signed == trimmed # <<>> /\ Head(trimmed) \in {"+", "-"}
        digits == LeadingDigits(IF signed THEN Tail(trimmed) ELSE trimmed)
    IN IF digits = <<>> THEN NaN
       ELSE IF signed /\ Head(trimmed) = "-"
       THEN Num(0 - DecimalValue(digits, 0))
       ELSE Num(DecimalValue(digits, 0))

\* isNaN(surveyScore) || surveyScore < 1 || surveyScore > 5
invalidSurveyScore(surveyScore) ==
    surveyScore.nan \/ surveyScore.value < 1 \/ surveyScore.value > 5

mapScoreToSentimentAboveFour(score) ==
    IF score > 4 THEN "positive"
    ELSE IF score <= 2 THEN "negative"
    ELSE "neutral"

mapScoreToSentiment(score) ==
    IF score >= 4 THEN "positive"
    ELSE IF score <= 2 THEN "negative"
    ELSE "neutral"

weightedScoreEvenWeights(surveyScore, csatScore) ==
    (5 * surveyScore + 5 * csatScore + 5) \div 10

\* Math.round(surveyScore * 0.7 + csatScore * 0.3); no sum of the two
\* products lies on a half, so the rounding rule for ties plays no part.
weightedScore(surveyScore, csatScore) ==
    (7 * surveyScore + 3 * csatScore + 5) \div 10

\* Math.max(confidence, 0.95)
atLeastSurveyConfidence(confidence) ==
    IF confidence.nan THEN NaN
    ELSE IF confidence.value >= 950 THEN confidence
    ELSE Num(950)

combineSentimentAndSurvey(sentimentResult, surveyResponse) ==
    LET surveyScore == parseInt(surveyResponse.response)
        combinedScore == weightedScore(surveyScore.value, sentimentResult.csatScore)
        finalScore == IF combinedScore < 1 THEN 1
                      ELSE IF combinedScore > 5 THEN 5
                      ELSE combinedScore
    IN IF invalidSurveyScore(surveyScore) THEN sentimentResult
       ELSE CSATResult(finalScore,
                       atLeastSurveyConfidence(sentimentResult.confidence),
                       mapScoreToSentiment(finalScore),
                       mapSentimentToSatisfaction("", finalScore), "true")

createCSATFromSurveyUnvalidated(surveyResponse) ==
    LET surveyScore == parseInt(surveyResponse.response)
    IN CSATResult(surveyScore.value, Num(950),
                  mapScoreToSentiment(surveyScore.value),
                  mapSentimentToSatisfaction("", surveyScore.value), "true")

createCSATFromSurvey(surveyResponse) ==
    LET surveyScore == parseInt(surveyResponse.response)
    IN IF invalidSurveyScore(surveyScore)
       THEN CSATResult(3, Num(500), "neutral", "Neutral", "true")
       ELSE CSATResult(surveyScore.value, Num(950),
                       mapScoreToSentiment(surveyScore.value),
                       mapSentimentToSatisfaction("", surveyScore.value), "true")

\* The try block of analyzeSentimentWithSurvey once analyzeSentiments has
\* returned sentimentResult.
analyzeSentimentWithSurveyBody(sentimentResult, copilotSurveyResponse) ==
    IF copilotSurveyResponse.t = "survey" /\ sentimentResult.t = "result"
    THEN Returned(combineSentimentAndSurvey(sentimentResult, copilotSurveyResponse))
    ELSE IF copilotSurveyResponse.t = "survey"
    THEN Returned(createCSATFromSurvey(copilotSurveyResponse))
    ELSE Returned(sentimentResult)

\* catch (error) { ...; return null; } of both entry points
caught(outcome) == IF outcome.threw THEN Returned(Null) ELSE outcome

----------------------------------------------------------------------------
(* SpecPipeline: one run of an entry point of either service               *)
(*                                                                         *)
(* TelemetryHelper.logActionEvent and console.error are taken to return.   *)

Str(chars) == [t |-> "string", s |-> Lit(chars)]
Tags(tokens) == [t |-> "string", tokens |-> tokens]
DisplayName(is, words) == [t |-> "string", is |-> is, words |-> words]

SDKMessage(control, content, tags, application, user, messageType, sender) ==
    [t |-> "message", isControlMessage |-> control, content |-> content,
     tags |-> tags, applicationDisplayName |-> application,
     userDisplayName |-> user, messageType |-> messageType, sender |-> sender]

FromCustomerMessage ==
    SDKMessage(FALSE, Str(<<"h", "i">>), Tags({"FromCustomer", "ChannelId-lcw"}),
               Undefined, Undefined, "undefined", "undefined")
PublicMessage ==
    SDKMessage(FALSE, Str(<<"o", "k">>), Tags({"public"}),
               Undefined, DisplayName("other", {"agent"}), "undefined", "undefined")
BotMessage ==
    SDKMessage(FALSE, Str(<<"y", "o">>), Undefined,
               Undefined, DisplayName("other", {"bot"}), "undefined", "undefined")
ApplicationCustomerMessage ==
    SDKMessage(FALSE, Str(<<"n", "o">>), Undefined,
               DisplayName("Customer", {}), Undefined, "undefined", "undefined")
LegacyAgentMessage ==
    SDKMessage(FALSE, Str(<<"o", "h">>), Undefined,
               Undefined, Undefined, "agent", "undefined")
SystemMessage ==
    SDKMessage(FALSE, Str(<<"i", "n">>), Tags({"system"}),
               Undefined, Undefined, "undefined", "undefined")
ControlMessage ==
    SDKMessage(TRUE, [t |-> "number"], Undefined,
               Undefined, Undefined, "undefined", "undefined")
BlankMessage ==
    SDKMessage(FALSE, Str(<<" ", " ">>), Tags({"FromCustomer"}),
               Undefined, Undefined, "undefined", "undefined")
NoContentMessage ==
    SDKMessage(FALSE, Undefined, Tags({"public"}),
               Undefined, Undefined, "undefined", "undefined")
AgentNameMessage ==
    SDKMessage(FALSE, Str(<<"a", "h">>), Undefined,
               Undefined, DisplayName("other", {"agent"}), "undefined", "undefined")
VirtualAgentNameMessage ==
    SDKMessage(FALSE, Str(<<"u", "m">>), Undefined,
               Undefined, DisplayName("other", {"virtual", "agent"}),
               "undefined", "undefined")
CustomerTypeMessage ==
    SDKMessage(FALSE, Str(<<"e", "h">>), Undefined,
               Undefined, Undefined, "customer", "undefined")
NumberContentMessage ==
    SDKMessage(FALSE, [t |-> "number"], Undefined,
               Undefined, Undefined, "undefined", "undefined")

ItemLists ==
    { <<>>,
      <<FromCustomerMessage>>,
      <<FromCustomerMessage, PublicMessage>>,
      <<BotMessage, ApplicationCustomerMessage, LegacyAgentMessage>>,
      <<AgentNameMessage, CustomerTypeMessage>>,
      <<VirtualAgentNameMessage>>,
      <<SystemMessage>>,
      <<ControlMessage, BlankMessage, NoContentMessage>>,
      <<FromCustomerMessage, Null>>,
      <<PublicMessage, NumberContentMessage>> }

\* The lists that are also delivered as JSON text and under messages.
EncodedItemLists ==
    { <<FromCustomerMessage, PublicMessage>>,
      <<ControlMessage, BlankMessage, NoContentMessage>> }

\* What getLiveChatTranscript can resolve with.
TranscriptResponses ==
    { Undefined, Null, JsonText(NotJson), JsonText(Null),
      Arr(<<FromCustomerMessage>>),
      Obj(Undefined, Undefined),
      Obj(Obj(Undefined, Undefined), Undefined),
      Obj(Undefined, Obj(Undefined, Undefined)),
      Obj(JsonText(NotJson), Arr(<<FromCustomerMessage>>)),
      Obj(JsonText(Obj(Undefined, Undefined)), Undefined) }
    \cup { Obj(Arr(items), Undefined) : items \in ItemLists }
    \cup { Obj(JsonText(Arr(items)), Undefined) : items \in EncodedItemLists }
    \cup { Obj(Undefined, Arr(items)) : items \in EncodedItemLists }
    \cup { Obj(Undefined, JsonText(Arr(items))) : items \in EncodedItemLists }
    \cup { JsonText(Obj(JsonText(Arr(items)), Undefined)) : items \in EncodedItemLists }

\* How getLiveChatTranscript can settle.
FetchOutcomes ==
    { [t |-> "rejects", value |-> Undefined] }
    \cup { [t |-> "resolves", value |-> v] : v \in TranscriptResponses }

ConfidenceScores ==
    { Undefined, [t |-> "empty"] }
    \cup { [t |-> "numbers", positive |-> sc[1], negative |-> sc[2], neutral |-> sc[3]] :
             sc \in { <<970, 20, 10>>, <<900, 50, 50>>, <<700, 200, 100>>, <<600, 300, 100>>,
                      <<500, 300, 200>>, <<50, 900, 50>>, <<200, 700, 100>>,
                      <<100, 100, 800>>, <<100, 50, 850>> } }

Documents ==
    [sentiment : {"undefined", "positive", "negative", "neutral", "mixed"},
     confidenceScores : ConfidenceScores]

\* How the provider call can settle: client.analyze of the SDK service,
\* fetch (and the reading of its response) of the REST service.
ProviderOutcomes(service) ==
    { [kind |-> k, document |-> Undefined] :
        k \in IF service = "SDK"
              THEN {"rejects", "nullPayload", "noResults", "errorEntry"}
              ELSE {"rejects", "notOk", "notOkTextRejects", "jsonRejects",
                    "nullPayload", "noResults", "errorEntry",
                    "errorEntryMalformed"} }
    \cup { [kind |-> "document", document |-> d] : d \in Documents }

ConfigValues ==
    [enabled  : {"absent", "undefined", "false", "true"},
     endpoint : {"absent", "undefined", "", "https://example.cognitiveservices.azure.com"},
     apiKey   : {"absent", "undefined", "", "key"}]

SurveyResponses ==
    { [t |-> "survey", response |-> r] :
        r \in { <<"5">>, <<"4">>, <<"3">>, <<"1">>, <<"0">>, <<"7">>,
                <<"1", "0">>, <<"x">>, <<>>, <<" ", "2">>, <<"5", "x">> } }

PipeInit ==
    /\ svc \in {"SDK", "REST"}
    /\ entry \in {"analyzeSentiments", "analyzeSentimentWithSurvey"}
    /\ entry = "analyzeSentimentWithSurvey" => svc = "SDK"
    /\ config \in ConfigValues
    /\ survey \in {Undefined} \cup SurveyResponses
    /\ survey # Undefined => entry = "analyzeSentimentWithSurvey"
    /\ pc = "idle"
    /\ fetched = [t |-> "none", value |-> Undefined]
    /\ response = [kind |-> "none", document |-> Undefined]
    /\ fetchCalls = 0
    /\ providerCalls = 0
    /\ aiResult = Undefined
    /\ result = Undefined
    /\ raised = FALSE
    /\ inMemState = [conversationState |-> "Closed",
                     conversationEndedBy |-> "NotSet",
                     startChatFailed |-> "false"]
    /\ isPersistentArg = FALSE
    /\ guardOut = NoGuardOut
    /\ WidgetIdle
    /\ TextIdle
    /\ SurveyIdle
    /\ SendBoxIdle

\* The entry point settles: analyzeSentiments with what its try block
\* yielded, then analyzeSentimentWithSurvey around it when that was called.
Settle(body) ==
    LET sentimentResult == caught(body)
        outcome == IF entry = "analyzeSentiments" THEN sentimentResult
                   ELSE caught(IF sentimentResult.threw THEN Thrown
                               ELSE analyzeSentimentWithSurveyBody(
                                        sentimentResult.value, survey))
    IN /\ aiResult' = sentimentResult.value
       /\ result' = outcome.value
       /\ raised' = outcome.threw
       /\ pc' = "done"

StartAnalysisAgainAfterNull ==
    /\ pc = "idle" \/ (pc = "done" /\ aiResult = Null /\ fetchCalls < 3)
    /\ IF configRejected(effectiveConfig(config))
       THEN /\ Settle(Returned(Null))
            /\ UNCHANGED fetchCalls
       ELSE /\ pc' = "fetching"
            /\ fetchCalls' = fetchCalls + 1
            /\ UNCHANGED <<aiResult, result, raised>>
    /\ UNCHANGED <<svc, entry, config, survey, fetched, response,
                   providerCalls, textVars, nonPipeVars>>

\* analyzeSentiments up to its first await: merge the config, validate it,
\* and either return null or ask for the transcript.
StartAnalysis ==
    /\ pc = "idle"
    /\ IF configRejected(effectiveConfig(config))
       THEN /\ Settle(Returned(Null))
            /\ UNCHANGED fetchCalls
       ELSE /\ pc' = "fetching"
            /\ fetchCalls' = fetchCalls + 1
            /\ UNCHANGED <<aiResult, result, raised>>
    /\ UNCHANGED <<svc, entry, config, survey, fetched, response,
                   providerCalls, textVars, nonPipeVars>>

\* getLiveChatTranscript settles: getChatTranscript decodes and filters,
\* analyzeSentiments returns null on an empty transcript and otherwise
\* enters the provider call, where the SDK service first creates its client
\* (the constructor may throw) and both assemble the text and send it.
TranscriptArrives(settled, clientCreated) ==
    /\ pc = "fetching"
    /\ fetched' = settled
    /\ chatTranscript' = getChatTranscript(svc, settled)
    /\ IF chatTranscript' = <<>>
       THEN /\ Settle(Returned(Null))
            /\ UNCHANGED <<providerCalls, conversationText, textBy>>
       ELSE IF svc = "SDK" /\ ~clientCreated
       THEN /\ Settle(Returned(Null))
            /\ UNCHANGED <<providerCalls, conversationText, textBy>>
       ELSE /\ conversationText' = IF svc = "SDK"
                                   THEN SdkConversationText(chatTranscript')
                                   ELSE RestConversationText(chatTranscript')
            /\ textBy' = svc
            /\ providerCalls' = providerCalls + 1
            /\ pc' = "calling"
            /\ UNCHANGED <<aiResult, result, raised>>
    /\ UNCHANGED <<svc, entry, config, survey, response, fetchCalls, nonPipeVars>>

\* The provider call settles and the entry point returns.
ProviderSettles(settled) ==
    /\ pc = "calling"
    /\ response' = settled
    /\ Settle(callProvider(svc, settled))
    /\ UNCHANGED <<svc, entry, config, survey, fetched, fetchCalls,
                   providerCalls, textVars, nonPipeVars>>

\* The abort signal of the REST request fires while the provider has not
\* answered: the pending fetch rejects.  The SDK service's call to
\* client.analyze passes no abort signal and no timeout.
AbortSignalTimeout ==
    /\ svc = "REST"
    /\ ProviderSettles([kind |-> "rejects", document |-> Undefined])

PipeNext ==
    \/ StartAnalysis
    \/ \E settled \in FetchOutcomes, clientCreated \in BOOLEAN :
          TranscriptArrives(settled, clientCreated)
    \/ \E settled \in ProviderOutcomes(svc) : ProviderSettles(settled)
    \/ AbortSignalTimeout

SpecPipeline == PipeInit /\ [][PipeNext]_vars

\* The cases of an unusable effective configuration that C7 names.
UnusableConfig ==
    LET effective == [f \in {"enabled", "endpoint", "apiKey"} |->
                        IF config[f] = "absent" THEN DEFAULT_CONFIG[f]
                        ELSE config[f]]
    IN \/ effective.enabled = "false"
       \/ effective.endpoint \in {"", "undefined"}
       \/ effective.apiKey \in {"", "undefined"}

\* C7: when the effective configuration is disabled or lacks its endpoint or
\* its apiKey, analyzeSentiments returns null, getLiveChatTranscript is never
\* invoked, the provider is never called, and no error is raised.
C7_UnusableConfigShortCircuits ==
    UnusableConfig =>
        /\ fetchCalls = 0
        /\ providerCalls = 0
        /\ pc \in {"idle", "done"}
        /\ ~raised
        /\ pc = "done" => aiResult = Null

\* A run with the default endpoint and an empty apiKey has returned.
C7_Witness ==
    /\ pc = "done"
    /\ config.enabled = "true"
    /\ config.endpoint = "absent"
    /\ config.apiKey = ""
    /\ aiResult = Null
    /\ fetchCalls = 0

\* The provider delivered a document with a sentiment and all three scores.
ScoredDocumentArrived ==
    /\ response.kind = "document"
    /\ response.document.sentiment # "undefined"
    /\ response.document.confidenceScores.t = "numbers"

\* Neither entry point ever rejects.
NeverRaises == ~raised

\* C8: neither entry point raises, and whenever a run ends without the
\* provider having delivered a sentiment with its confidence scores (the
\* fetch rejected, its text or shape was unusable, the provider call failed,
\* answered with an error, or left out sentiment or scores), the result
\* without a survey is null.
C8_NullOnEveryFailure ==
    pc = "done" =>
        /\ ~raised
        /\ (survey = Undefined /\ ~ScoredDocumentArrived) => result = Null

\* The maximum of the three per-class scores the provider delivered.
ProviderConfidence ==
    LET scores == response.document.confidenceScores
        values == {scores.positive, scores.negative, scores.neutral}
    IN CHOOSE m \in values : \A v \in values : m >= v

\* C11: the result's confidence is the maximum of the three per-class
\* scores, and the CSAT score is 5 for positive with confidence above 0.8,
\* 4 for positive otherwise, 1 for negative with confidence above 0.8, 2 for
\* negative otherwise, 3 for neutral and mixed, mixed reported as neutral.
C11_ScoreByResultConfidence ==
    (pc = "done" /\ ScoredDocumentArrived) =>
        LET sentiment == response.document.sentiment
        IN /\ aiResult.t = "result"
           /\ aiResult.confidence = [nan |-> FALSE, value |-> ProviderConfidence]
           /\ aiResult.sentiment = IF sentiment = "mixed" THEN "neutral" ELSE sentiment
           /\ aiResult.csatScore =
                 CASE sentiment = "positive" ->
                        IF ProviderConfidence > 800 THEN 5 ELSE 4
                   [] sentiment = "negative" ->
                        IF ProviderConfidence > 800 THEN 1 ELSE 2
                   [] OTHER -> 3

\* Documents of the given sentiment that carry all three scores.
ScoredDocuments(sentiment) ==
    { d \in Documents : d.sentiment = sentiment /\ d.confidenceScores.t = "numbers" }

\* C12: for a fixed sentiment the score is monotonic in that sentiment's own
\* confidence: positive never scores below 4 and a higher positive confidence
\* never scores lower (0.5 and 0.7 give 4, 0.9 gives 5); negative never
\* scores above 2 and a higher negative confidence never scores higher.
C12_MonotonicInOwnConfidence ==
    (pc = "done" /\ ScoredDocumentArrived) =>
        LET sentiment == response.document.sentiment
            scores == response.document.confidenceScores
        IN /\ sentiment = "positive" =>
                 /\ aiResult.csatScore >= 4
                 /\ scores.positive \in {500, 700} => aiResult.csatScore = 4
                 /\ scores.positive = 900 => aiResult.csatScore = 5
                 /\ \A d \in ScoredDocuments("positive") :
                       d.confidenceScores.positive >= scores.positive
                          => scoreDocument(d).csatScore >= aiResult.csatScore
           /\ sentiment = "negative" =>
                 /\ aiResult.csatScore <= 2
                 /\ \A d \in ScoredDocuments("negative") :
                       d.confidenceScores.negative >= scores.negative
                          => scoreDocument(d).csatScore <= aiResult.csatScore

\* A positive document with positive confidence 0.7 has been scored 4.
C12_Witness ==
    /\ pc = "done"
    /\ ScoredDocumentArrived
    /\ response.document.sentiment = "positive"
    /\ response.document.confidenceScores.positive = 700
    /\ aiResult.csatScore = 4

\* The results a finished run has produced: that of analyzeSentiments and
\* that of the entry point.
ReturnedResults == { r \in {aiResult, result} : r.t = "result" }

\* C13: in every CSATResult returned, on the AI-only, blended, survey-only
\* and invalid-survey paths, csatScore is in 1..5 (so the sentiment-based
\* branch of mapSentimentToSatisfaction is not taken) and satisfactionLevel
\* is the level of that score alone.
C13_LevelFromScoreAlone ==
    pc = "done" =>
        \A r \in ReturnedResults :
            /\ r.csatScore \in 1..5
            /\ r.satisfactionLevel =
                  CASE r.csatScore = 5 -> "Very Satisfied"
                    [] r.csatScore = 4 -> "Satisfied"
                    [] r.csatScore = 3 -> "Neutral"
                    [] r.csatScore = 2 -> "Dissatisfied"
                    [] r.csatScore = 1 -> "Very Dissatisfied"

\* A survey-only result of score 5 after the AI scoring gave null.
C13_Witness ==
    /\ pc = "done"
    /\ aiResult = Null
    /\ result.t = "result"
    /\ result.csatScore = 5
    /\ result.satisfactionLevel = "Very Satisfied"

\* The survey response is one of the numerals 1 to 5.
IntegerSurvey ==
    /\ survey.t = "survey"
    /\ survey.response \in { <<"1">>, <<"2">>, <<"3">>, <<"4">>, <<"5">> }

SurveyInteger ==
    CHOOSE s \in 1..5 : survey.response = << <<"1", "2", "3", "4", "5">>[s] >>

\* C14: with an AI result of score a and confidence c and a survey response
\* that is an integer s in 1..5, analyzeSentimentWithSurvey returns score
\* round(0.7 s + 0.3 a) within 1..5, confidence max(c, 0.95), the sentiment of
\* the final score and surveyResponseIncluded = true; a = 4, c = 0.6, s = 5
\* gives 5.
C14_SurveyBlend ==
    (/\ pc = "done"
     /\ entry = "analyzeSentimentWithSurvey"
     /\ aiResult.t = "result"
     /\ ~aiResult.confidence.nan
     /\ IntegerSurvey) =>
        LET c == aiResult.confidence.value
            weighted == 7 * SurveyInteger + 3 * aiResult.csatScore
        IN /\ result.t = "result"
           /\ result.csatScore \in 1..5
           /\ 10 * result.csatScore - 5 <= weighted
           /\ weighted < 10 * result.csatScore + 5
           /\ result.confidence = [nan |-> FALSE, value |-> IF c >= 950 THEN c ELSE 950]
           /\ result.sentiment = IF result.csatScore >= 4 THEN "positive"
                                 ELSE IF result.csatScore <= 2 THEN "negative"
                                 ELSE "neutral"
           /\ result.surveyResponseIncluded = "true"
           /\ (aiResult.csatScore = 4 /\ c = 600 /\ SurveyInteger = 5)
                 => result.csatScore = 5

\* AI score 4 with confidence 0.6 and survey "5" have been blended to 5.
C14_Witness ==
    /\ pc = "done"
    /\ aiResult.t = "result"
    /\ aiResult.csatScore = 4
    /\ aiResult.confidence = [nan |-> FALSE, value |-> 600]
    /\ survey = [t |-> "survey", response |-> <<"5">>]
    /\ result.t = "result"
    /\ result.csatScore = 5
    /\ result.surveyResponseIncluded = "true"

\* C15: with a survey and a null AI result analyzeSentimentWithSurvey neither
\* raises nor returns null: a response that is an integer s in 1..5 gives
\* score s, confidence 0.95 and the sentiment of s; a response that is out of
\* range or not a number gives the neutral fallback, score 3, confidence 0.5,
\* sentiment neutral.  (A numeral padded with white space is left open.)
C15_SurveyAlone ==
    (/\ pc = "done"
     /\ entry = "analyzeSentimentWithSurvey"
     /\ survey.t = "survey"
     /\ aiResult = Null) =>
        /\ ~raised
        /\ result.t = "result"
        /\ result.surveyResponseIncluded = "true"
        /\ IF IntegerSurvey
           THEN /\ result.csatScore = SurveyInteger
                /\ result.confidence = [nan |-> FALSE, value |-> 950]
                /\ result.sentiment = IF SurveyInteger >= 4 THEN "positive"
                                      ELSE IF SurveyInteger <= 2 THEN "negative"
                                      ELSE "neutral"
           ELSE IF survey.response = <<" ", "2">>
           THEN TRUE
           ELSE /\ result.csatScore = 3
                /\ result.confidence = [nan |-> FALSE, value |-> 500]
                /\ result.sentiment = "neutral"

----------------------------------------------------------------------------
(* SpecSurvey: survey detection on an inbound DirectLine activity          *)

DirectLineActivity(type, clientActivityID, botId, text, textFormat) ==
    [t |-> "activity", type |-> type, clientActivityID |-> clientActivityID,
     cci_bot_id |-> botId, text |-> text, textFormat |-> textFormat]

Text(chars) == [t |-> "string", chars |-> chars]

oneToFiveAnywhere(chars) ==
    \E i \in DOMAIN chars : chars[i] \in {"1", "2", "3", "4", "5"}

\* /^[1-5]$/.test(text): without the m flag ^ and $ match only at the two
\* ends of the input.
oneToFive(chars) ==
    Len(chars) = 1 /\ chars[1] \in {"1", "2", "3", "4", "5"}

isCopilotSurveyResponse(a) ==
    /\ a.t = "activity"
    /\ a.type = "message"
    /\ a.clientActivityID \notin {"undefined", ""}
    /\ a.cci_bot_id \notin {"undefined", ""}
    /\ a.text.t = "string"
    /\ a.text.chars # <<>>
    /\ oneToFive(a.text.chars)
    /\ a.textFormat = "plain"

\* response: activity.text || ""
extractSurveyResponse(a) ==
    IF ~isCopilotSurveyResponse(a) THEN Null
    ELSE [t |-> "survey", response |-> a.text.chars]

Activities ==
    { Undefined }
    \cup { DirectLineActivity(type, id, bot, text, format) :
             type \in {"message", "event", "undefined"},
             id \in {"undefined", "", "c1"},
             bot \in {"undefined", "", "b1"},
             text \in { Undefined } \cup
                      { Text(chars) :
                          chars \in { <<"3">>, <<"1">>, <<"5">>, <<"0">>, <<"6">>,
                                      <<"1", "2">>, <<>>, <<"x">>, <<"3", "\n">>,
                                      <<" ", "3">> } },
             format \in {"plain", "markdown", "undefined"} }

SurveyInit ==
    /\ activity \in Activities
    /\ detected = "none"
    /\ extracted = Undefined
    /\ inMemState = [conversationState |-> "Closed",
                     conversationEndedBy |-> "NotSet",
                     startChatFailed |-> "false"]
    /\ isPersistentArg = FALSE
    /\ guardOut = NoGuardOut
    /\ WidgetIdle
    /\ TextIdle
    /\ PipeIdle
    /\ SendBoxIdle

DetectSurvey ==
    /\ detected = "none"
    /\ detected' = IF isCopilotSurveyResponse(activity) THEN "true" ELSE "false"
    /\ UNCHANGED <<activity, extracted, nonSurveyVars>>

ExtractSurvey ==
    /\ extracted = Undefined
    /\ extracted' = extractSurveyResponse(activity)
    /\ UNCHANGED <<activity, detected, nonSurveyVars>>

SurveyNext == DetectSurvey \/ ExtractSurvey

SpecSurvey == SurveyInit /\ [][SurveyNext]_vars

\* The activity is a plain message with both ids whose text is one digit 1-5.
Qualifies ==
    /\ activity # Undefined
    /\ activity.type = "message"
    /\ activity.clientActivityID = "c1"
    /\ activity.cci_bot_id = "b1"
    /\ activity.text \in { Text(<<d>>) : d \in {"1", "2", "3", "4", "5"} }
    /\ activity.textFormat = "plain"

\* C16: isCopilotSurveyResponse is true exactly for a message with a
\* non-empty clientActivityID and cci_bot_id, a text of exactly one digit 1
\* to 5 and textFormat plain; extractSurveyResponse returns null exactly for
\* the other activities and otherwise a response equal to the text.
C16_SurveyDetection ==
    /\ detected # "none" => (detected = "true" <=> Qualifies)
    /\ extracted # Undefined =>
          IF Qualifies
          THEN extracted = [t |-> "survey", response |-> activity.text.chars]
          ELSE extracted = Null

\* Text "3" with all fields present has been accepted and extracted.
C16_Witness ==
    /\ activity = DirectLineActivity("message", "c1", "b1", Text(<<"3">>), "plain")
    /\ detected = "true"
    /\ extracted = [t |-> "survey", response |-> <<"3">>]

\* The provider's document, if one arrived, carries its three scores (each
\* in [0,1]) and one of the four sentiment labels.
ProviderWellFormed ==
    response.kind = "document" =>
        /\ response.document.confidenceScores.t # "empty"
        /\ response.document.sentiment
              \in {"undefined", "positive", "negative", "neutral", "mixed"}

\* C17: every non-null CSATResult returned by either entry point has an
\* integer csatScore in 1..5, a confidence in [0,1] and a sentiment among
\* positive, negative and neutral, given a well-formed provider document.
C17_ResultRanges ==
    (pc = "done" /\ ProviderWellFormed) =>
        \A r \in ReturnedResults :
            /\ r.csatScore \in 1..5
            /\ ~r.confidence.nan
            /\ r.confidence.value >= 0
            /\ r.confidence.value <= 1000
            /\ r.sentiment \in {"positive", "negative", "neutral"}

\* A mixed document has been scored and blended with a survey.
C17_Witness ==
    /\ pc = "done"
    /\ response.kind = "document"
    /\ response.document.sentiment = "mixed"
    /\ aiResult.t = "result"
    /\ aiResult.sentiment = "neutral"
    /\ result.t = "result"
    /\ result.surveyResponseIncluded = "true"

\* C18: one run is a single pass: getLiveChatTranscript is invoked at most
\* once and the provider is called at most once, the provider is only called
\* once the transcript fetch has been made and has settled, and a run that
\* has ended, with a result or with null, has repeated nothing.
C18_SinglePass ==
    /\ fetchCalls \in {0, 1}
    /\ providerCalls \in {0, 1}
    /\ providerCalls = 1 => (fetchCalls = 1 /\ fetched.t # "none")
    /\ pc = "idle" => (fetchCalls = 0 /\ providerCalls = 0)
    /\ pc = "fetching" => (fetchCalls = 1 /\ providerCalls = 0)
    /\ pc = "calling" => (fetchCalls = 1 /\ providerCalls = 1)

\* A run with a survey has ended after one fetch and one failed provider call.
C18_Witness ==
    /\ pc = "done"
    /\ entry = "analyzeSentimentWithSurvey"
    /\ fetchCalls = 1
    /\ providerCalls = 1
    /\ response.kind = "rejects"
    /\ aiResult = Null

\* The payload after the first level of decoding, its message field, and
\* that field after the second level.
PayloadDecoded ==
    IF fetched.value.t = "string" THEN fetched.value.json ELSE fetched.value

MessageField ==
    IF PayloadDecoded.t # "object" THEN Undefined
    ELSE IF PayloadDecoded.chatMessagesJson # Undefined
    THEN PayloadDecoded.chatMessagesJson
    ELSE PayloadDecoded.messages

MessageFieldDecoded ==
    IF MessageField.t = "string" THEN MessageField.json ELSE MessageField

\* Every item of the list is one the service's filter drops.
AllFilteredOut(items) ==
    \A i \in DOMAIN items :
        /\ items[i].t = "message"
        /\ \/ items[i].isControlMessage
           \/ items[i].content = Undefined
           \/ items[i].content.t = "string" /\ IsBlank(items[i].content.s)
           \/ svc = "REST" /\ items[i].tags = Tags({"system"})

\* Decoding fails at either level, or yields no list, or a list of which
\* nothing is kept.
NoTranscript ==
    \/ PayloadDecoded.t = "invalid"
    \/ MessageFieldDecoded.t # "array"
    \/ AllFilteredOut(MessageFieldDecoded.items)

\* C19: when the payload, decoded through its two levels, fails to decode,
\* is no list, or has every message filtered out, the message list is empty,
\* analyzeSentiments ends with null and the provider is not called.
C19_NoTranscriptEndsWithNull ==
    (fetched.t = "resolves" /\ NoTranscript) =>
        /\ chatTranscript = <<>>
        /\ pc = "done"
        /\ aiResult = Null
        /\ providerCalls = 0

\* chatMessagesJson did not decode, although messages held a list.
C19_Witness ==
    /\ fetched.t = "resolves"
    /\ fetched.value = Obj(JsonText(NotJson), Arr(<<FromCustomerMessage>>))
    /\ chatTranscript = <<>>
    /\ pc = "done"
    /\ aiResult = Null
    /\ providerCalls = 0

\* The sender the stated priority order gives: customer tag, then display
\* names ("bot" / "virtual" before "agent"), then messageType / sender, then
\* bot.
PrioritySender(message) ==
    IF message.tags # Undefined /\ "FromCustomer" \in message.tags.tokens
    THEN "customer"
    ELSE IF message.applicationDisplayName # Undefined
              /\ message.applicationDisplayName.is = "Customer"
    THEN "customer"
    ELSE IF message.userDisplayName # Undefined
              /\ message.userDisplayName.words \cap {"bot", "virtual"} # {}
    THEN "bot"
    ELSE IF message.userDisplayName # Undefined
              /\ "agent" \in message.userDisplayName.words
    THEN "agent"
    ELSE IF "customer" \in {message.messageType, message.sender} THEN "customer"
    ELSE IF "agent" \in {message.messageType, message.sender} THEN "agent"
    ELSE "bot"

\* Every item of the list passes the service's filter.
AllKept(items) ==
    \A i \in DOMAIN items :
        /\ items[i].t = "message"
        /\ ~items[i].isControlMessage
        /\ items[i].content.t = "string"
        /\ ~IsBlank(items[i].content.s)
        /\ items[i].tags # Tags({"system"})

\* C20: in both services every message is classified by the priority order:
\* a display name containing "agent" gives agent also without tags, and
\* messageType customer without tag or display name gives customer.
C20_SenderByPriority ==
    (/\ fetched.t = "resolves"
     /\ PayloadDecoded.t # "invalid"
     /\ MessageFieldDecoded.t = "array"
     /\ AllKept(MessageFieldDecoded.items)) =>
        /\ Len(chatTranscript) = Len(MessageFieldDecoded.items)
        /\ \A i \in DOMAIN chatTranscript :
              chatTranscript[i].sender = PrioritySender(MessageFieldDecoded.items[i])

\* A message the stated filter keeps: no control message, no system
\* message, and a content that is neither missing, empty nor blank.
StatedKeep(item) ==
    /\ ~item.isControlMessage
    /\ item.tags # Tags({"system"})
    /\ item.content.t = "string"
    /\ item.content.s # <<>>
    /\ ~IsBlank(item.content.s)

\* Every item of the list is a message whose content, if any, is a string.
AllReadable(items) ==
    \A i \in DOMAIN items :
        items[i].t = "message" /\ items[i].content.t \in {"undefined", "string"}

\* C21: in both services the list passed on to text assembly holds exactly
\* the transcript's messages that are no control message, no system message
\* and have a non-blank content, in their original order.
C21_FilteredTranscript ==
    (/\ fetched.t = "resolves"
     /\ PayloadDecoded.t # "invalid"
     /\ MessageFieldDecoded.t = "array"
     /\ AllReadable(MessageFieldDecoded.items)) =>
        LET kept == SelectSeq(MessageFieldDecoded.items, StatedKeep)
        IN /\ Len(chatTranscript) = Len(kept)
           /\ \A i \in DOMAIN chatTranscript :
                 chatTranscript[i].content = kept[i].content.s

\* C25: the provider call is bounded by a timeout in both services: whenever
\* a run waits for the provider, the timeout can fire and end the run (with
\* null), so no run waits forever on a provider that never answers.
C25_ProviderCallBoundedByTimeout == pc = "calling" => ENABLED AbortSignalTimeout

\* The lines of messages k..n, as each assembly writes them.
RECURSIVE WholeLines(_, _, _)
WholeLines(by, transcript, k) ==
    IF k > Len(transcript) THEN <<>>
    ELSE IF by = "SDK"
    THEN Concat(messageText(transcript[k]), WholeLines(by, transcript, k + 1))
    ELSE IF k = Len(transcript) THEN messageLine(transcript[k])
    ELSE Concat(Concat(messageLine(transcript[k]), Lit(<<"\n">>)),
                WholeLines(by, transcript, k + 1))

\* C26: the submitted text is the whole lines of a contiguous run of the
\* most recent messages, in order, with no partial line and no truncation
\* marker, and the run stops at the first older message that does not fit
\* in the budget.
C26_WholeLinesOfMostRecentRun ==
    textBy # "none" =>
        \E k \in 1..Len(chatTranscript) :
            /\ conversationText = WholeLines(textBy, chatTranscript, k)
            /\ k > 1 => StrLen(WholeLines(textBy, chatTranscript, k - 1))
                            > MAX_TEXT_LENGTH

\* C28: with a non-null AI result and a survey whose response is not an
\* integer in 1..5, analyzeSentimentWithSurvey returns the AI result
\* unchanged: same score, confidence, sentiment and satisfaction level, and
\* surveyResponseIncluded not set.  (A numeral padded with white space is
\* left open.)
C28_InvalidSurveyLeavesAiResult ==
    (/\ pc = "done"
     /\ entry = "analyzeSentimentWithSurvey"
     /\ aiResult.t = "result"
     /\ survey.t = "survey"
     /\ ~IntegerSurvey
     /\ survey.response # <<" ", "2">>) =>
        /\ result = aiResult
        /\ result.surveyResponseIncluded # "true"

\* C29: in every CSATResult returned, by the AI alone, by the blend, by the
\* survey alone or as the fallback, sentiment and csatScore agree: positive
\* exactly when csatScore >= 4, negative exactly when csatScore <= 2,
\* neutral exactly when csatScore = 3.
C29_SentimentAgreesWithScore ==
    (pc = "done" /\ result.t = "result") =>
        /\ result.sentiment \in {"positive", "negative", "neutral"}
        /\ result.sentiment = "positive" <=> result.csatScore >= 4
        /\ result.sentiment = "negative" <=> result.csatScore <= 2
        /\ result.sentiment = "neutral" <=> result.csatScore = 3

\* A blend that turned a negative AI result into a positive one.
C29_Witness ==
    /\ pc = "done"
    /\ aiResult.t = "result"
    /\ aiResult.sentiment = "negative"
    /\ result.t = "result"
    /\ result.surveyResponseIncluded = "true"
    /\ result.sentiment = "positive"
    /\ result.csatScore = 4

----------------------------------------------------------------------------
(* The attachments of the send box (AIFluentSendboxStateful).  File names, *)
(* MIME types and the accept prop are sequences of characters.            *)

MAX_FILES == 10

MAX_FILE_SIZE_MB == 25

\* String.prototype.includes
Includes(str, sub) ==
    \E i \in 0..(Len(str) - Len(sub)) : SubSeq(str, i + 1, i + Len(sub)) = sub

\* String.prototype.endsWith
EndsWithChars(str, suffix) ==
    /\ Len(suffix) <= Len(str)
    /\ SubSeq(str, Len(str) - Len(suffix) + 1, Len(str)) = suffix

\* a.replace("*", ""): the first asterisk is removed.
RECURSIVE RemoveFirstAsterisk(_)
RemoveFirstAsterisk(chars) ==
    IF chars = <<>> THEN <<>>
    ELSE IF Head(chars) = "*" THEN Tail(chars)
    ELSE <<Head(chars)>> \o RemoveFirstAsterisk(Tail(chars))

\* String.prototype.trim
RECURSIVE Trim(_)
Trim(chars) ==
    IF chars # <<>> /\ chars[Len(chars)] \in {" ", "\n", "\t"}
    THEN Trim(SubSeq(chars, 1, Len(chars) - 1))
    ELSE TrimStart(chars)

\* split(",")
RECURSIVE SplitAtCommas(_)
SplitAtCommas(chars) ==
    IF \A i \in DOMAIN chars : chars[i] # ","
    THEN <<chars>>
    ELSE LET comma == CHOOSE i \in DOMAIN chars :
                          /\ chars[i] = ","
                          /\ \A j \in 1..(i - 1) : chars[j] # ","
         IN <<SubSeq(chars, 1, comma - 1)>>
                \o SplitAtCommas(SubSeq(chars, comma + 1, Len(chars)))

\* (props.accept || "").split(",").map(t => t.trim()).filter(Boolean)
acceptTypes(acceptProp) ==
    LET parts == SplitAtCommas(IF acceptProp = Undefined THEN <<>>
                               ELSE acceptProp.chars)
        NonEmpty(part) == part # <<>>
    IN SelectSeq([i \in DOMAIN parts |-> Trim(parts[i])], NonEmpty)

\* (f.size / (1024 * 1024)) <= MAX_FILE_SIZE_MB; the division by a power of
\* two is exact.
sizeOk(f) == f.size <= MAX_FILE_SIZE_MB * (1024 * 1024)

typeOk(f, types) ==
    \/ Len(types) = 0
    \/ \E i \in DOMAIN types :
          \/ Includes(f.type, types[i])
          \/ EndsWithChars(f.name, RemoveFirstAsterisk(types[i]))

EnrichedAttachment(f) == [blob |-> f, name |-> f.name, contentType |-> f.type]

\* Array.prototype.slice(0, end)
SliceFromStart(files, end) ==
    LET last == IF end < 0
                THEN (IF Len(files) + end < 0 THEN 0 ELSE Len(files) + end)
                ELSE (IF end > Len(files) THEN Len(files) ELSE end)
    IN SubSeq(files, 1, last)

\* slice.forEach(...): the files that pass both checks, as attachments.
acceptedFiles(slice, types) ==
    LET Passes(f) == sizeOk(f) /\ typeOk(f, types)
        accepted == SelectSeq(slice, Passes)
    IN [i \in DOMAIN accepted |-> EnrichedAttachment(accepted[i])]

validateAndAddFilesUnsliced(current, files, types) ==
    LET accepted == acceptedFiles(files, types)
    IN IF files = <<>> \/ accepted = <<>>
       THEN [set |-> FALSE, value |-> <<>>]
       ELSE [set |-> TRUE, value |-> current \o accepted]

\* validateAndAddFiles: whether it calls setWCAttachments, and with what.
validateAndAddFiles(current, files, types) ==
    LET remainingSlots == MAX_FILES - Len(current)
        accepted == acceptedFiles(SliceFromStart(files, remainingSlots), types)
    IN IF files = <<>> \/ accepted = <<>>
       THEN [set |-> FALSE, value |-> <<>>]
       ELSE [set |-> TRUE, value |-> current \o accepted]

\* setWCAttachments, when the handler called it.
AfterSet(attachments, call) == IF call.set THEN call.value ELSE attachments

----------------------------------------------------------------------------
(* SpecSendBox: picks, drops, removals and submits on the send box        *)

Chars(str) == [t |-> "string", chars |-> str]

\* exactly 25 MB
Photo == [name |-> <<"a", ".", "p", "n", "g">>,
          type |-> <<"i", "m", "a", "g", "e", "/", "p", "n", "g">>,
          size |-> 26214400]

\* one byte more than 25 MB
Video == [name |-> <<"c", ".", "p", "n", "g">>,
          type |-> <<"i", "m", "a", "g", "e", "/", "p", "n", "g">>,
          size |-> 26214401]

Tool == [name |-> <<"d", ".", "e", "x", "e">>,
         type |-> <<"a", "p", "p", "/", "e", "x", "e">>,
         size |-> 2048]

FileLists ==
    { <<>>, <<Photo>>, <<Photo, Tool, Video>>,
      [i \in 1..(MAX_FILES + 1) |-> Photo] }

AcceptProps ==
    { Undefined,
      Chars(<<"i", "m", "a", "g", "e", "/", "p", "n", "g", ",", " ",
              ".", "p", "d", "f">>),
      Chars(<<"i", "m", "a", "g", "e", "/", "*">>),
      Chars(<<"*", ".", "p", "n", "g", ",">>) }

Values == { <<" ", " ">>, <<"h", "i">> }

SendBoxInit ==
    /\ accept \in AcceptProps
    /\ wcAttachments \in
          { [i \in 1..n |-> EnrichedAttachment(Photo)] :
                n \in {0, MAX_FILES - 1, MAX_FILES} }
    /\ \A i \in DOMAIN wcAttachments :
          typeOk(wcAttachments[i].blob, acceptTypes(accept))
    /\ renderedAttachments = wcAttachments
    /\ sendBoxOp = NoSendBoxOp
    /\ inMemState = [conversationState |-> "Closed",
                     conversationEndedBy |-> "NotSet",
                     startChatFailed |-> "false"]
    /\ isPersistentArg = FALSE
    /\ guardOut = NoGuardOut
    /\ WidgetIdle
    /\ TextIdle
    /\ PipeIdle
    /\ SurveyIdle

SendBoxRan(name, files, sent) ==
    [name |-> name, before |-> wcAttachments,
     current |-> renderedAttachments, files |-> files, sent |-> sent]

\* onFilesPicked: the file input changed.
PickFiles(files) ==
    /\ wcAttachments' =
          AfterSet(wcAttachments,
                   validateAndAddFiles(renderedAttachments, files,
                                       acceptTypes(accept)))
    /\ sendBoxOp' = SendBoxRan("pick", files, FALSE)
    /\ UNCHANGED <<renderedAttachments, accept, nonSendBoxVars>>

\* handleDropFiles: props.onDrop(files), then props.onFilesChange(files);
\* both are onFilesDropped of the same render.
DropFiles(files, enableDragDrop) ==
    /\ wcAttachments' =
          IF enableDragDrop
          THEN LET onDrop == validateAndAddFiles(renderedAttachments, files,
                                                 acceptTypes(accept))
                   onFilesChange == validateAndAddFiles(renderedAttachments,
                                                        files,
                                                        acceptTypes(accept))
               IN AfterSet(AfterSet(wcAttachments, onDrop), onFilesChange)
          ELSE wcAttachments
    /\ sendBoxOp' = SendBoxRan(IF enableDragDrop THEN "drop" ELSE "dropIgnored",
                               files, FALSE)
    /\ UNCHANGED <<renderedAttachments, accept, nonSendBoxVars>>

\* removeAttachmentAt(index), index counted from 0.
RemoveAttachment(index) ==
    /\ index < Len(renderedAttachments)
    /\ wcAttachments' =
          [i \in 1..(Len(renderedAttachments) - 1) |->
              renderedAttachments[IF i <= index THEN i ELSE i + 1]]
    /\ sendBoxOp' = SendBoxRan("remove", <<>>, FALSE)
    /\ UNCHANGED <<renderedAttachments, accept, nonSendBoxVars>>

\* onSubmitText(value)
SubmitText(value) ==
    LET text == Trim(value)
        sends == text # <<>> \/ renderedAttachments # <<>>
    IN /\ wcAttachments' = IF sends THEN <<>> ELSE wcAttachments
       /\ sendBoxOp' = SendBoxRan("submit", <<>>, sends)
       /\ UNCHANGED <<renderedAttachments, accept, nonSendBoxVars>>

\* The send box renders again after Web Chat's attachments changed.
RenderSendBox ==
    /\ renderedAttachments # wcAttachments
    /\ renderedAttachments' = wcAttachments
    /\ sendBoxOp' = SendBoxRan("render", <<>>, FALSE)
    /\ UNCHANGED <<wcAttachments, accept, nonSendBoxVars>>

SendBoxNext ==
    \/ \E files \in FileLists : PickFiles(files)
    \/ \E files \in FileLists, enableDragDrop \in BOOLEAN :
          DropFiles(files, enableDragDrop)
    \/ \E index \in {0, MAX_FILES - 1} : RemoveAttachment(index)
    \/ \E value \in Values : SubmitText(value)
    \/ RenderSendBox

SpecSendBox == SendBoxInit /\ [][SendBoxNext]_vars

\* C30: starting from at most 10 attachments, after any sequence of picks,
\* drops, removals and submits the list holds at most 10 files, every file
\* in it is at most 25 MB and passed the accept-type check, a drop adds each
\* accepted file once although it reaches validateAndAddFiles twice, and
\* after a submit that sent a message the list is empty.
C30_AttachmentListWithinLimits ==
    /\ Len(wcAttachments) <= 10
    /\ \A i \in DOMAIN wcAttachments :
          /\ wcAttachments[i].blob.size <= 25 * 1024 * 1024
          /\ typeOk(wcAttachments[i].blob, acceptTypes(accept))
    /\ sendBoxOp.name = "drop" =>
          LET Passes(f) == sizeOk(f) /\ typeOk(f, acceptTypes(accept))
              free == 10 - Len(sendBoxOp.current)
              offered == SubSeq(sendBoxOp.files, 1,
                                IF free < Len(sendBoxOp.files) THEN free
                                ELSE Len(sendBoxOp.files))
              added == SelectSeq(offered, Passes)
          IN IF added = <<>> THEN wcAttachments = sendBoxOp.before
             ELSE /\ Len(wcAttachments) = Len(sendBoxOp.current) + Len(added)
                  /\ \A i \in DOMAIN sendBoxOp.current :
                        wcAttachments[i] = sendBoxOp.current[i]
                  /\ \A i \in DOMAIN added :
                        wcAttachments[Len(sendBoxOp.current) + i].blob = added[i]
    /\ (sendBoxOp.name = "submit" /\ sendBoxOp.sent) => wcAttachments = <<>>

\* A drop of three files on nine attachments added the first of them, once.
C30_Witness ==
    /\ sendBoxOp.name = "drop"
    /\ Len(sendBoxOp.current) = 9
    /\ sendBoxOp.files = <<Photo, Tool, Video>>
    /\ Len(wcAttachments) = 10
    /\ wcAttachments[10].blob = Photo

----------------------------------------------------------------------------
(* The widget store.  The reducer of the surrounding application sets the  *)
(* field an action names; the pane only ever hands it the three action     *)
(* types below.                                                            *)

Snapshot ==
    [appStates |-> appStates,
     confirmationState |-> confirmationState,
     showConfirmationPane |-> showConfirmationPane]

Action(type, payload) == [type |-> type, payload |-> payload]

Reduce(st, a) ==
    CASE a.type = "SET_CONFIRMATION_STATE" ->
            [st EXCEPT !.confirmationState = a.payload]
      [] a.type = "SET_SHOW_CONFIRMATION" ->
            [st EXCEPT !.showConfirmationPane = a.payload]
      [] a.type = "SET_PREVIOUS_FOCUSED_ELEMENT_ID" ->
            [st EXCEPT !.appStates.previousElementIdOnFocusBeforeModalOpen = a.payload]
      [] a.type = "SET_CONVERSATION_STATE" ->
            [st EXCEPT !.appStates.conversationState = a.payload]
      [] OTHER -> st

RECURSIVE DispatchAll(_, _)
DispatchAll(st, actions) ==
    IF actions = <<>> THEN st
    ELSE DispatchAll(Reduce(st, Head(actions)), Tail(actions))

StoreBecomes(st) ==
    /\ appStates' = st.appStates
    /\ confirmationState' = st.confirmationState
    /\ showConfirmationPane' = st.showConfirmationPane

----------------------------------------------------------------------------
(* ConfirmationPaneStateful: the handlers read the state of the render     *)
(* that created them (c) and dispatch to the store.                        *)

onConfirmClosingPane(c) ==
    IF c.confirmationState = "Ok" THEN <<>>
    ELSE << Action("SET_CONFIRMATION_STATE", "Ok"),
            Action("SET_CONVERSATION_STATE", "Closed") >>

onConfirm(c) ==
    IF c.confirmationState = "Ok" THEN <<>>
    ELSE << Action("SET_CONFIRMATION_STATE", "Ok") >>

onCancel(c) ==
    IF c.confirmationState = "Ok" THEN <<>>
    ELSE << Action("SET_SHOW_CONFIRMATION", FALSE),
            Action("SET_CONFIRMATION_STATE", "Cancel") >>
         \o (IF c.appStates.previousElementIdOnFocusBeforeModalOpen # "null"
             THEN << Action("SET_PREVIOUS_FOCUSED_ELEMENT_ID", "null") >>
             ELSE <<>>)

endChatCompleted(a) ==
    \/ a.conversationState = "Closed"
    \/ a.conversationState = "PostchatLoading"
    \/ a.conversationState = "Postchat"
    \/ a.conversationState = "Error"
    \/ (a.conversationState = "Loading" /\ Truthy(a.startChatFailed))

autoCloseOnAnyConfirmationState(c) ==
    IF ~c.showConfirmationPane THEN <<>>
    ELSE IF ~endChatCompleted(c.appStates) THEN <<>>
    ELSE << Action("SET_SHOW_CONFIRMATION", FALSE) >>

autoClose(c) ==
    IF ~c.showConfirmationPane THEN <<>>
    ELSE IF c.confirmationState # "Ok" THEN <<>>
    ELSE IF ~endChatCompleted(c.appStates) THEN <<>>
    ELSE << Action("SET_SHOW_CONFIRMATION", FALSE) >>

\* The dependency list of the auto-close effect.
autoCloseDeps(c) ==
    << c.appStates.conversationState, c.showConfirmationPane, c.confirmationState >>

\* The record of a handler's run: the state it read (for the pane's
\* handlers), the conversation fields before it ran, what it dispatched and,
\* for a request, whether its guard prevented it.
Ran(name, read, dispatched, prevented) ==
    [name |-> name, read |-> read, before |-> Conversation(appStates),
     dispatched |-> dispatched, prevented |-> prevented]

ClickConfirm ==
    /\ rendered.mounted
    /\ LET d == onConfirm(rendered.state) IN
        /\ StoreBecomes(DispatchAll(Snapshot, d))
        /\ lastOp' = Ran("onConfirm", rendered.state, d, FALSE)
    /\ UNCHANGED <<isPersistent, rendered, sdkCalls, nonWidgetVars>>

ClickCancel ==
    /\ rendered.mounted
    /\ LET d == onCancel(rendered.state) IN
        /\ StoreBecomes(DispatchAll(Snapshot, d))
        /\ lastOp' = Ran("onCancel", rendered.state, d, FALSE)
    /\ UNCHANGED <<isPersistent, rendered, sdkCalls, nonWidgetVars>>

\* The widget renders the pane while showConfirmationPane is set.  A render
\* captures the store; the auto-close effect runs after the first render and
\* after a render in which one of its dependencies changed.
RenderPane ==
    /\ showConfirmationPane
    /\ ~rendered.mounted \/ rendered.state # Snapshot
    /\ rendered' = [mounted |-> TRUE, state |-> Snapshot]
    /\ IF ~rendered.mounted \/ autoCloseDeps(rendered.state) # autoCloseDeps(Snapshot)
       THEN LET d == autoClose(Snapshot) IN
               /\ StoreBecomes(DispatchAll(Snapshot, d))
               /\ lastOp' = Ran("autoClose", Snapshot, d, FALSE)
       ELSE /\ lastOp' = Ran("render", NoSnapshot, <<>>, FALSE)
            /\ UNCHANGED <<appStates, confirmationState, showConfirmationPane>>
    /\ UNCHANGED <<isPersistent, sdkCalls, nonWidgetVars>>

UnmountPane ==
    /\ ~showConfirmationPane
    /\ rendered.mounted
    /\ rendered' = NotRendered
    /\ lastOp' = Ran("unmount", NoSnapshot, <<>>, FALSE)
    /\ UNCHANGED <<appStates, confirmationState, showConfirmationPane,
                   isPersistent, sdkCalls, nonWidgetVars>>

----------------------------------------------------------------------------
(* The surrounding application: start-chat and end-chat requests, each     *)
(* admitted only if its guard allows it, the SDK calls they start, and the *)
(* conversation states the SDK callbacks lead to.                          *)

MaxSdkCalls == 2

InFlight == sdkCalls.startChat + sdkCalls.endChat

RequestStartChat ==
    /\ InFlight < MaxSdkCalls
    /\ LET prevented == shouldPreventStartChat(appStates, isPersistent) IN
        /\ lastOp' = Ran("requestStartChat", NoSnapshot, <<>>, prevented)
        /\ IF prevented
           THEN UNCHANGED <<appStates, sdkCalls>>
           ELSE /\ appStates' = [appStates EXCEPT
                                   !.conversationState = "Loading",
                                   !.startChatFailed = "false"]
                /\ sdkCalls' = [sdkCalls EXCEPT !.startChat = @ + 1]
    /\ UNCHANGED <<confirmationState, showConfirmationPane, isPersistent,
                   rendered, nonWidgetVars>>

StartChatResolves ==
    /\ sdkCalls.startChat > 0
    /\ sdkCalls' = [sdkCalls EXCEPT !.startChat = @ - 1]
    /\ appStates' = [appStates EXCEPT !.conversationState = "Active"]
    /\ lastOp' = Ran("startChatResolves", NoSnapshot, <<>>, FALSE)
    /\ UNCHANGED <<confirmationState, showConfirmationPane, isPersistent,
                   rendered, nonWidgetVars>>

StartChatRejects ==
    /\ sdkCalls.startChat > 0
    /\ sdkCalls' = [sdkCalls EXCEPT !.startChat = @ - 1]
    /\ appStates' = [appStates EXCEPT !.conversationState = "Loading",
                                      !.startChatFailed = "true"]
    /\ lastOp' = Ran("startChatRejects", NoSnapshot, <<>>, FALSE)
    /\ UNCHANGED <<confirmationState, showConfirmationPane, isPersistent,
                   rendered, nonWidgetVars>>

\* An end-chat request, local or relayed from another tab.  A failed start
\* left no session to end; a persistent chat may close without the SDK.
RequestEndChat(source, skipSdk) ==
    /\ InFlight < MaxSdkCalls
    /\ appStates.conversationState \in {"Loading", "Active", "InActive"}
    /\ appStates.conversationEndedBy = "NotSet"
    /\ skipSdk => isPersistent
    /\ LET prevented == IF source = "local"
                        THEN shouldPreventEndChat(appStates)
                        ELSE shouldPreventCrossTabEndChat(appStates)
       IN
        /\ lastOp' = Ran(IF source = "local" THEN "requestEndChat"
                         ELSE "requestCrossTabEndChat", NoSnapshot, <<>>, prevented)
        /\ IF prevented
           THEN UNCHANGED <<appStates, sdkCalls>>
           ELSE IF appStates.conversationState = "Loading" \/ skipSdk
           THEN /\ appStates' = [appStates EXCEPT
                                   !.conversationState = "Closed",
                                   !.startChatFailed = "false"]
                /\ UNCHANGED sdkCalls
           ELSE /\ appStates' = [appStates EXCEPT
                                   !.conversationState = "Loading",
                                   !.conversationEndedBy = "Customer"]
                /\ sdkCalls' = [sdkCalls EXCEPT !.endChat = @ + 1]
    /\ UNCHANGED <<confirmationState, showConfirmationPane, isPersistent,
                   rendered, nonWidgetVars>>

\* The end-chat call settles: Closed (also after a failure, by the finally
\* block), PostchatLoading when a survey follows, or Error.
EndChatSettles(outcome) ==
    /\ sdkCalls.endChat > 0
    /\ sdkCalls' = [sdkCalls EXCEPT !.endChat = @ - 1]
    /\ appStates' = [appStates EXCEPT !.conversationState = outcome,
                                      !.conversationEndedBy = "NotSet"]
    /\ lastOp' = Ran("endChatSettles", NoSnapshot, <<>>, FALSE)
    /\ UNCHANGED <<confirmationState, showConfirmationPane, isPersistent,
                   rendered, nonWidgetVars>>

PostchatAdvances ==
    /\ appStates.conversationState \in {"PostchatLoading", "Postchat"}
    /\ appStates' = [appStates EXCEPT !.conversationState =
                        IF @ = "PostchatLoading" THEN "Postchat" ELSE "Closed"]
    /\ lastOp' = Ran("postchatAdvances", NoSnapshot, <<>>, FALSE)
    /\ UNCHANGED <<confirmationState, showConfirmationPane, isPersistent,
                   rendered, sdkCalls, nonWidgetVars>>

ConversationGoesInActive ==
    /\ appStates.conversationState = "Active"
    /\ appStates' = [appStates EXCEPT !.conversationState = "InActive"]
    /\ lastOp' = Ran("conversationGoesInActive", NoSnapshot, <<>>, FALSE)
    /\ UNCHANGED <<confirmationState, showConfirmationPane, isPersistent,
                   rendered, sdkCalls, nonWidgetVars>>

\* The customer asks to end the chat: the confirmation pane opens, and the
\* element that had the focus is remembered (when there was one).  A pane
\* that was hidden has been unmounted by the time it is opened again.
OpenConfirmationPane(focused) ==
    /\ ~showConfirmationPane
    /\ ~rendered.mounted
    /\ appStates.conversationState \in {"Loading", "Active", "InActive"}
    /\ showConfirmationPane' = TRUE
    /\ appStates' = [appStates EXCEPT
                        !.previousElementIdOnFocusBeforeModalOpen = focused]
    /\ lastOp' = Ran("openConfirmationPane", NoSnapshot, <<>>, FALSE)
    /\ UNCHANGED <<confirmationState, isPersistent, rendered, sdkCalls, nonWidgetVars>>

\* An evaluation of the guards that is followed by no request.
EvaluateGuards ==
    /\ lastOp' = Ran("evaluateGuards", NoSnapshot, <<>>,
                     shouldPreventStartChat(appStates, isPersistent)
                        \/ shouldPreventEndChat(appStates)
                        \/ shouldPreventCrossTabEndChat(appStates))
    /\ UNCHANGED <<appStates, confirmationState, showConfirmationPane,
                   isPersistent, rendered, sdkCalls, nonWidgetVars>>

Init ==
    /\ inMemState = [conversationState |-> "Closed",
                     conversationEndedBy |-> "NotSet",
                     startChatFailed |-> "false"]
    /\ isPersistentArg = FALSE
    /\ guardOut = NoGuardOut
    /\ appStates = InitialAppStates
    /\ confirmationState = "NotSet"
    /\ showConfirmationPane = FALSE
    /\ isPersistent \in BOOLEAN
    /\ rendered = NotRendered
    /\ sdkCalls = [startChat |-> 0, endChat |-> 0]
    /\ lastOp = NoOp
    /\ TextIdle
    /\ PipeIdle
    /\ SurveyIdle
    /\ SendBoxIdle

Next ==
    \/ RequestStartChat
    \/ StartChatResolves
    \/ StartChatRejects
    \/ \E source \in {"local", "crossTab"}, skipSdk \in BOOLEAN :
          RequestEndChat(source, skipSdk)
    \/ \E outcome \in {"Closed", "PostchatLoading", "Error"} :
          EndChatSettles(outcome)
    \/ PostchatAdvances
    \/ ConversationGoesInActive
    \/ \E focused \in {"null", "oc-lcw-header-close-button"} :
          OpenConfirmationPane(focused)
    \/ ClickConfirm
    \/ ClickCancel
    \/ RenderPane
    \/ UnmountPane
    \/ EvaluateGuards

Spec == Init /\ [][Next]_vars

----------------------------------------------------------------------------
Requests == {"requestStartChat", "requestEndChat", "requestCrossTabEndChat"}

\* C3: no two SDK calls are ever in flight at the same time: a request made
\* while a call is in flight (conversationState = Loading and startChatFailed
\* = false) is prevented, whether it is an end-chat or a second start-chat.
C3_NoTwoSdkCallsInFlight ==
    /\ InFlight <= 1
    /\ (/\ lastOp.name \in Requests
        /\ lastOp.before.conversationState = "Loading"
        /\ lastOp.before.startChatFailed = "false")
       => lastOp.prevented

Dismissed(op) ==
    \E i \in DOMAIN op.dispatched :
        op.dispatched[i] = Action("SET_SHOW_CONFIRMATION", FALSE)

Settled(a) ==
    \/ a.conversationState \in {"Closed", "PostchatLoading", "Postchat", "Error"}
    \/ (a.conversationState = "Loading" /\ a.startChatFailed = "true")

PaneActionTypes ==
    {"SET_CONFIRMATION_STATE", "SET_SHOW_CONFIRMATION",
     "SET_PREVIOUS_FOCUSED_ELEMENT_ID"}

\* C6: a guard evaluation and every action of the confirmation pane (Confirm,
\* Cancel, auto-dismiss) leave conversationState, conversationEndedBy and
\* startChatFailed as they were, and the pane dispatches only
\* SET_CONFIRMATION_STATE, SET_SHOW_CONFIRMATION and
\* SET_PREVIOUS_FOCUSED_ELEMENT_ID.
C6_PaneAndGuardsLeaveConversation ==
    lastOp.name \in {"onConfirm", "onCancel", "autoClose", "evaluateGuards"} =>
        /\ Conversation(appStates) = lastOp.before
        /\ \A i \in DOMAIN lastOp.dispatched :
              lastOp.dispatched[i].type \in PaneActionTypes

C6_Witness ==
    /\ lastOp.name = "onCancel"
    /\ Len(lastOp.dispatched) = 3
    /\ appStates.conversationState = "Active"
    /\ ~showConfirmationPane

\* The pane has just rendered the store as it is now: no render is pending,
\* so no effect of the pane will run until the store changes again.
RenderedUpToDate ==
    /\ lastOp.name \in {"render", "autoClose"}
    /\ rendered.mounted
    /\ rendered.state = Snapshot

\* C22: once the pane is shown, confirmationState is Ok and the conversation
\* is settled (Closed, PostchatLoading, Postchat, Error, or Loading with
\* startChatFailed), the dismiss check is re-evaluated and the pane is
\* closed: the pane never comes to rest, with every store change rendered,
\* in a state where the dismiss predicate holds.
C22_NoRestWhileDismissPredicateHolds ==
    ~(/\ showConfirmationPane
      /\ confirmationState = "Ok"
      /\ Settled(appStates)
      /\ RenderedUpToDate)

\* C23: the pane auto-closes only after Confirm and once the conversation has
\* left Active/Loading: an auto-dismiss reads confirmationState = Ok (a
\* Confirm came first), no auto-dismiss happens while conversationState is
\* Active or Loading, and after a Confirm the pane does not stay shown, with
\* the store rendered, on any conversationState other than Active or Loading.
C23_AutoCloseOnlyAfterConfirmAndAwayFromActiveLoading ==
    /\ (lastOp.name = "autoClose" /\ Dismissed(lastOp)) =>
          /\ lastOp.read.confirmationState = "Ok"
          /\ lastOp.read.appStates.conversationState \notin {"Active", "Loading"}
    /\ (/\ showConfirmationPane
        /\ confirmationState = "Ok"
        /\ RenderedUpToDate)
       => appStates.conversationState \in {"Active", "Loading"}

\* C24: when the pane has been closed, by Cancel or by auto-dismiss after
\* Confirm, confirmationState is NotSet, so the pane is opened with
\* confirmationState = NotSet (both buttons enabled).
C24_ClosedPaneLeavesNotSet ==
    /\ (lastOp.name \in {"onCancel", "autoClose"} /\ Dismissed(lastOp))
          => confirmationState = "NotSet"
    /\ lastOp.name = "openConfirmationPane" => confirmationState = "NotSet"

\* C27: once confirmationState is Ok and while the pane is shown, a Confirm
\* or Cancel click dispatches nothing, also when it is handled before the
\* pane has rendered the Ok: confirmationState stays Ok and the pane stays
\* shown, so SET_CONFIRMATION_STATE(Ok) is dispatched at most once per
\* opening and a Cancel after a Confirm does not close the pane.
C27_NoDispatchOnceOk ==
    [][(/\ showConfirmationPane
        /\ confirmationState = "Ok"
        /\ lastOp'.name \in {"onConfirm", "onCancel"})
       => /\ lastOp'.dispatched = <<>>
          /\ confirmationState' = "Ok"
          /\ showConfirmationPane']_vars

=============================================================================
